---- MODULE Spec2Model ----
(***************************************************************************)
(* fanren-sync (src/main.py): a password-gated JSON archive store over one *)
(* flat directory.  Strings are sequences of characters; a character is a  *)
(* one-element string, and the characters that have no printable ASCII     *)
(* form carry a symbolic name ("LF", "NUL", "U+4E2D", "U+D800").           *)
(***************************************************************************)
EXTENDS Integers, Sequences, FiniteSets, TLC

\* ------------------------------------------------------------------------
\* Characters
\* ------------------------------------------------------------------------

AsciiLetters ==
    {"a", "b", "c", "d", "e", "f", "g", "h", "i", "j", "k", "l", "m",
     "n", "o", "p", "q", "r", "s", "t", "u", "v", "w", "x", "y", "z",
     "I", "N"}

\* "U+4E2D" is a CJK letter: \w of Python 3 str patterns matches it.
UnicodeLetters == {"U+4E2D"}

Digits == {"0", "1", "2", "3", "4", "5", "6", "7", "8", "9"}

\* "U+D800" is a lone surrogate: a Python str may hold it, UTF-8 cannot.
LoneSurrogate == "U+D800"

\* re: \w, the word characters of a str pattern
IsWordChar(c) == c \in AsciiLetters \cup UnicodeLetters \cup Digits \cup {"_"}

\* a character class that also keeps the dot and the slash
KeptLax(c) == IsWordChar(c) \/ c \in {"-", ".", "/"}

\* re.sub(r'[^\w\-]', '', ...): the characters the substitution keeps
Kept(c) == IsWordChar(c) \/ c = "-"

\* the slice bound of sanitized[:100]
MaxFilenameLen == 100

Min(a, b) == IF a <= b THEN a ELSE b

\* sanitize_filename(filename)
sanitize_filename(filename) ==
    LET sanitized == SelectSeq(filename, Kept)
    IN  SubSeq(sanitized, 1, Min(Len(sanitized), MaxFilenameLen))

\* ------------------------------------------------------------------------
\* Paths
\* ------------------------------------------------------------------------

JsonSuffix == <<".", "j", "s", "o", "n">>

\* data_dir = os.path.join(os.path.dirname(__file__), "data"), with the
\* program installed in /app
data_dir == <<"/", "a", "p", "p", "/", "d", "a", "t", "a">>

\* os.path.join(a, b) of posixpath
path_join(a, b) ==
    IF Len(b) > 0 /\ b[1] = "/" THEN b
    ELSE IF Len(a) = 0 \/ a[Len(a)] = "/" THEN a \o b
    ELSE a \o <<"/">> \o b

\* os.path.join(data_dir, f"{safe_filename}.json")
file_path_of(safe_filename) == path_join(data_dir, safe_filename \o JsonSuffix)

\* the k-th smallest element of a set of numbers
Nth(S, k) == CHOOSE x \in S : Cardinality({y \in S : y < x}) = k - 1

\* p.split("/"): the components of a path, empty components included
Split(p) ==
    LET starts == {0} \cup {i \in 1..Len(p) : p[i] = "/"}
        n == Cardinality(starts)
    IN  [k \in 1..n |->
            SubSeq(p, Nth(starts, k) + 1,
                   (IF k = n THEN Len(p) + 1 ELSE Nth(starts, k + 1)) - 1)]

\* Path resolution of an absolute path: "" and "." are skipped, ".." goes up
\* (every directory named on the way exists in the modelled tree).
RECURSIVE ResolveComps(_, _, _)
ResolveComps(comps, i, acc) ==
    IF i > Len(comps) THEN acc
    ELSE IF comps[i] = <<>> \/ comps[i] = <<".">> THEN ResolveComps(comps, i + 1, acc)
    ELSE IF comps[i] = <<".", ".">>
         THEN ResolveComps(comps, i + 1,
                           IF Len(acc) = 0 THEN acc ELSE SubSeq(acc, 1, Len(acc) - 1))
    ELSE ResolveComps(comps, i + 1, Append(acc, comps[i]))

Resolve(p) == ResolveComps(Split(p), 1, <<>>)

DataDirComps == Resolve(data_dir)

\* a file that lies directly in the storage directory
InDataDir(rp) ==
    /\ Len(rp) = Len(DataDirComps) + 1
    /\ SubSeq(rp, 1, Len(DataDirComps)) = DataDirComps

\* ------------------------------------------------------------------------
\* JSON values (payload.data: Any) and the json module
\* ------------------------------------------------------------------------
\* A value is a record [t, s, kids]: t the type, s the text of a scalar (the
\* characters of a string, the digits of a number, the key of a member),
\* kids the items of an array or the members of an object, in dict order.

JNull == [t |-> "null", s |-> <<>>, kids |-> <<>>]
JTrue == [t |-> "true", s |-> <<>>, kids |-> <<>>]
JFalse == [t |-> "false", s |-> <<>>, kids |-> <<>>]
JNum(digits) == [t |-> "num", s |-> digits, kids |-> <<>>]
JStr(chars) == [t |-> "str", s |-> chars, kids |-> <<>>]
JArr(items) == [t |-> "arr", s |-> <<>>, kids |-> items]
JMember(key, val) == [t |-> "member", s |-> key, kids |-> <<val>>]
JObj(members) == [t |-> "obj", s |-> <<>>, kids |-> members]

NaNText == <<"N", "a", "N">>

RECURSIVE Concat(_)
Concat(seqs) == IF seqs = <<>> THEN <<>> ELSE Head(seqs) \o Concat(Tail(seqs))

\* json.encoder ESCAPE_DCT with ensure_ascii=False: quote, backslash and
\* control characters are escaped, every other character is emitted as is
EscapeChar(c) ==
    IF c = "\"" THEN <<"\\", "\"">>
    ELSE IF c = "\\" THEN <<"\\", "\\">>
    ELSE IF c = "LF" THEN <<"\\", "n">>
    ELSE IF c = "NUL" THEN <<"\\", "u", "0", "0", "0", "0">>
    ELSE <<c>>

QuoteString(chars) ==
    <<"\"">> \o Concat([i \in 1..Len(chars) |-> EscapeChar(chars[i])]) \o <<"\"">>

\* the indent of json.dumps(..., indent=2)
IndentWidth == 2

NewlineIndent(level) == <<"LF">> \o [i \in 1..(IndentWidth * level) |-> " "]

\* json.dumps(v, indent=2, ensure_ascii=False), at nesting depth level
RECURSIVE DumpAt(_, _)
DumpAt(v, level) ==
    CASE v.t = "null" -> <<"n", "u", "l", "l">>
      [] v.t = "true" -> <<"t", "r", "u", "e">>
      [] v.t = "false" -> <<"f", "a", "l", "s", "e">>
      [] v.t = "num" -> v.s
      [] v.t = "str" -> QuoteString(v.s)
      [] v.t = "arr" ->
           IF v.kids = <<>> THEN <<"[", "]">>
           ELSE <<"[">>
                \o Concat([i \in 1..Len(v.kids) |->
                      (IF i > 1 THEN <<",">> ELSE <<>>)
                      \o NewlineIndent(level + 1)
                      \o DumpAt(v.kids[i], level + 1)])
                \o NewlineIndent(level) \o <<"]">>
      [] v.t = "obj" ->
           IF v.kids = <<>> THEN <<"{", "}">>
           ELSE <<"{">>
                \o Concat([i \in 1..Len(v.kids) |->
                      (IF i > 1 THEN <<",">> ELSE <<>>)
                      \o NewlineIndent(level + 1)
                      \o QuoteString(v.kids[i].s) \o <<":", " ">>
                      \o DumpAt(v.kids[i].kids[1], level + 1)])
                \o NewlineIndent(level) \o <<"}">>

json_dumps(v) == DumpAt(v, 0)

\* --- json.loads: a recursive-descent scanner over the characters ---

ParseFail == [ok |-> FALSE, v |-> JNull, i |-> 0]
ParseOk(v, i) == [ok |-> TRUE, v |-> v, i |-> i]

IsWs(c) == c \in {" ", "LF"}

RECURSIVE SkipWs(_, _)
SkipWs(s, i) == IF i <= Len(s) /\ IsWs(s[i]) THEN SkipWs(s, i + 1) ELSE i

StartsWith(s, i, lit) ==
    /\ i + Len(lit) - 1 <= Len(s)
    /\ SubSeq(s, i, i + Len(lit) - 1) = lit

\* the digits of an integer literal starting at i: the index after them
RECURSIVE DigitsEnd(_, _)
DigitsEnd(s, i) == IF i <= Len(s) /\ s[i] \in Digits THEN DigitsEnd(s, i + 1) ELSE i

\* NUMBER_RE restricted to integers: -?(0|[1-9]\d*)
ParseNumber(s, i) ==
    LET j == IF s[i] = "-" THEN i + 1 ELSE i
        k == IF j <= Len(s) /\ s[j] = "0" THEN j + 1 ELSE DigitsEnd(s, j)
    IN  IF k = j THEN ParseFail ELSE ParseOk(JNum(SubSeq(s, i, k - 1)), k)

\* py_scanstring (strict): s[i] is the character after the opening quote
RECURSIVE ParseString(_, _, _)
ParseString(s, i, acc) ==
    IF i > Len(s) THEN ParseFail
    ELSE IF s[i] = "\"" THEN ParseOk(JStr(acc), i + 1)
    ELSE IF s[i] \in {"LF", "NUL"} THEN ParseFail
    ELSE IF s[i] # "\\" THEN ParseString(s, i + 1, Append(acc, s[i]))
    ELSE IF i + 1 > Len(s) THEN ParseFail
    ELSE IF s[i + 1] = "\"" THEN ParseString(s, i + 2, Append(acc, "\""))
    ELSE IF s[i + 1] = "\\" THEN ParseString(s, i + 2, Append(acc, "\\"))
    ELSE IF s[i + 1] = "n" THEN ParseString(s, i + 2, Append(acc, "LF"))
    ELSE IF StartsWith(s, i + 1, <<"u", "0", "0", "0", "0">>)
         THEN ParseString(s, i + 6, Append(acc, "NUL"))
    ELSE ParseFail

\* dict[key] = val: a repeated key keeps its place and takes the new value
SetMember(members, key, val) ==
    IF \E j \in 1..Len(members) : members[j].s = key
    THEN [j \in 1..Len(members) |->
            IF members[j].s = key THEN JMember(key, val) ELSE members[j]]
    ELSE Append(members, JMember(key, val))

RECURSIVE ParseValue(_, _), ParseItems(_, _, _), ParseMembers(_, _, _)

\* scan_once
ParseValue(s, i) ==
    IF i > Len(s) THEN ParseFail
    ELSE IF s[i] = "\"" THEN ParseString(s, i + 1, <<>>)
    ELSE IF s[i] = "{" THEN
         LET j == SkipWs(s, i + 1)
         IN  IF j <= Len(s) /\ s[j] = "}" THEN ParseOk(JObj(<<>>), j + 1)
             ELSE ParseMembers(s, j, <<>>)
    ELSE IF s[i] = "[" THEN
         LET j == SkipWs(s, i + 1)
         IN  IF j <= Len(s) /\ s[j] = "]" THEN ParseOk(JArr(<<>>), j + 1)
             ELSE ParseItems(s, j, <<>>)
    ELSE IF StartsWith(s, i, <<"n", "u", "l", "l">>) THEN ParseOk(JNull, i + 4)
    ELSE IF StartsWith(s, i, <<"t", "r", "u", "e">>) THEN ParseOk(JTrue, i + 4)
    ELSE IF StartsWith(s, i, <<"f", "a", "l", "s", "e">>) THEN ParseOk(JFalse, i + 5)
    ELSE IF StartsWith(s, i, NaNText) THEN ParseOk(JNum(NaNText), i + 3)
    ELSE IF s[i] = "-" \/ s[i] \in Digits THEN ParseNumber(s, i)
    ELSE ParseFail

\* JSONArray: s[i] starts an item
ParseItems(s, i, acc) ==
    LET r == ParseValue(s, i)
        j == SkipWs(s, r.i)
    IN  IF ~r.ok \/ j > Len(s) THEN ParseFail
        ELSE IF s[j] = "]" THEN ParseOk(JArr(Append(acc, r.v)), j + 1)
        ELSE IF s[j] = "," THEN ParseItems(s, SkipWs(s, j + 1), Append(acc, r.v))
        ELSE ParseFail

\* JSONObject: s[i] must open a key
ParseMembers(s, i, acc) ==
    IF i > Len(s) \/ s[i] # "\"" THEN ParseFail
    ELSE LET k == ParseString(s, i + 1, <<>>)
             c == SkipWs(s, k.i)
         IN  IF ~k.ok \/ c > Len(s) \/ s[c] # ":" THEN ParseFail
             ELSE LET r == ParseValue(s, SkipWs(s, c + 1))
                      j == SkipWs(s, r.i)
                  IN  IF ~r.ok \/ j > Len(s) THEN ParseFail
                      ELSE IF s[j] = "}"
                           THEN ParseOk(JObj(SetMember(acc, k.v.s, r.v)), j + 1)
                      ELSE IF s[j] = ","
                           THEN ParseMembers(s, SkipWs(s, j + 1),
                                             SetMember(acc, k.v.s, r.v))
                      ELSE ParseFail

\* json.loads(content): [ok, v]; ok is FALSE where it raises JSONDecodeError
json_loads(content) ==
    LET r == ParseValue(content, SkipWs(content, 1))
    IN  IF r.ok /\ SkipWs(content, r.i) > Len(content)
        THEN [ok |-> TRUE, v |-> r.v]
        ELSE [ok |-> FALSE, v |-> JNull]

\* a float that json.dumps(..., allow_nan=False) refuses, anywhere in v
RECURSIVE HasNaN(_)
HasNaN(v) ==
    \/ v.t = "num" /\ v.s = NaNText
    \/ \E i \in 1..Len(v.kids) : HasNaN(v.kids[i])

\* text.encode("utf-8") raises UnicodeEncodeError
Unencodable(text) == \E i \in 1..Len(text) : text[i] = LoneSurrogate

\* ------------------------------------------------------------------------
\* Requests and responses
\* ------------------------------------------------------------------------

\* Optional[str]
None == [some |-> FALSE, v |-> <<>>]
Some(chars) == [some |-> TRUE, v |-> chars]

\* os.getenv("SYNC_PASSWORD") or os.getenv("sync_password")
getenv_or(upper, lower) == IF upper.some /\ upper.v # <<>> THEN upper ELSE lower

\* the JSON body of a response plus its status code; exc and path are the
\* exception text (str(e)) and the file path that text quotes, when the
\* "error" string embeds them
Response(status, msg, exc, path, data, archives) ==
    [status |-> status, msg |-> msg, exc |-> exc, path |-> path,
     data |-> data, archives |-> archives]

NoResponse == Response(0, "", "", <<>>, <<>>, {})

\* global_exception_handler: a fixed message, whatever the exception
global_exception_handler == Response(500, "internal_error", "", <<>>, <<>>, {})

\* http_exception_handler: exc.status_code and exc.detail, as raised
http_exception_handler(status_code, msg, exc, path) ==
    Response(status_code, msg, exc, path, <<>>, {})

\* a request: the path password, the operation, ?archiveName= of load and
\* delete or the body's archiveName of save, and the body's data
Request(op, password, archiveName, data) ==
    [op |-> op, password |-> password, archiveName |-> archiveName, data |-> data]

NoRequest == Request("", <<>>, None, JNull)

NoLocals == [safe_filename |-> <<>>, file_path |-> <<>>, fd |-> 0, buf |-> <<>>]

\* bool(v) of a parsed JSON value
Truthy(v) ==
    CASE v.t = "null" -> FALSE
      [] v.t = "true" -> TRUE
      [] v.t = "false" -> FALSE
      [] v.t = "num" -> v.s \notin {<<"0">>, <<"-", "0">>}
      [] v.t = "str" -> v.s # <<>>
      [] OTHER -> v.kids # <<>>

\* dict.get(key): <<value>>, or <<>> for None
DictGet(obj, key) ==
    IF \E i \in 1..Len(obj.kids) : obj.kids[i].s = key
    THEN <<obj.kids[CHOOSE i \in 1..Len(obj.kids) : obj.kids[i].s = key].kids[1]>>
    ELSE <<>>

InternalNameKey == <<"_", "i", "n", "t", "e", "r", "n", "a", "l", "N", "a", "m", "e">>

\* a name lookup that prefers the nested name
archive_name_nested_first(payload) ==
    IF payload.data.t = "obj" /\ DictGet(payload.data, InternalNameKey) # <<>>
    THEN DictGet(payload.data, InternalNameKey)
    ELSE IF payload.archiveName.some THEN <<JStr(payload.archiveName.v)>> ELSE <<>>

\* a name lookup that falls back to a default name
archive_name_defaulted(payload) ==
    IF payload.archiveName.some /\ payload.archiveName.v # <<>>
    THEN <<JStr(payload.archiveName.v)>>
    ELSE IF payload.data.t = "obj" /\ DictGet(payload.data, InternalNameKey) # <<>>
    THEN DictGet(payload.data, InternalNameKey)
    ELSE <<JStr(<<"d", "e", "f", "a", "u", "l", "t">>)>>

\* save_archive, steps 1 and 2: the value of archive_name (<<>> is None)
archive_name_of(payload) ==
    IF payload.archiveName.some /\ payload.archiveName.v # <<>>
    THEN <<JStr(payload.archiveName.v)>>
    ELSE IF payload.data.t = "obj"
    THEN DictGet(payload.data, InternalNameKey)
    ELSE IF payload.archiveName.some THEN <<JStr(payload.archiveName.v)>> ELSE <<>>

\* ------------------------------------------------------------------------
\* Inputs
\* ------------------------------------------------------------------------

\* the number of requests a behaviour receives
MaxReqs == 4

Secret == <<"p", "w">>
WrongPassword == <<"b", "a", "d">>

Foobar == <<"f", "o", "o", "b", "a", "r">>
FooBangBar == <<"f", "o", "o", "!", "b", "a", "r">>
Traversal ==
    <<".", ".", "/", ".", ".", "/", "e", "t", "c", "/", "p", "a", "s", "s", "w", "d">>
DotDotSlash == <<".", ".", "/">>
\* 101 permitted characters among forbidden ones
LongName ==
    <<"U+4E2D", "-", "_", "7", " ", "NUL", "\\", ".">> \o [i \in 1..97 |-> "a"]

ValNull == JNull
ValArray == JArr(<<JNum(<<"1">>), JStr(<<"x", "\"", "\\", "LF", "U+4E2D">>)>>)
ValNamed == JObj(<<JMember(InternalNameKey, JStr(Traversal)), JMember(<<"n">>, JFalse)>>)
ValBadName == JObj(<<JMember(InternalNameKey, JNum(<<"7">>))>>)
ValPlain == JObj(<<JMember(<<"k">>, JNum(<<"-", "2">>))>>)
ValSurrogate == JStr(<<LoneSurrogate>>)
ValNaN == JArr(<<JNum(NaNText)>>)

LoadNames == {Foobar, FooBangBar, Traversal, DotDotSlash, LongName, <<>>}

\* the requests of the sequential specification
SeqRequests ==
    {Request("list", Secret, None, JNull)}
    \cup {Request(op, Secret, Some(n), JNull) : op \in {"load", "delete"}, n \in LoadNames}
    \cup {Request("save", Secret, Some(n), v) :
            n \in {Foobar, FooBangBar},
            v \in {ValNull, ValArray, ValNamed, ValNaN, ValPlain}}
    \cup {Request("save", Secret, Some(n), ValArray) :
            n \in {Traversal, DotDotSlash, LongName}}
    \cup {Request("save", Secret, top, v) :
            top \in {None, Some(<<>>)},
            v \in {ValNull, ValArray, ValNamed, ValBadName, ValPlain, ValSurrogate}}
    \cup {Request("save", Secret, Some(Foobar), ValSurrogate)}
    \cup {Request("list", WrongPassword, None, JNull),
          Request("load", WrongPassword, Some(Foobar), JNull),
          Request("delete", WrongPassword, Some(Foobar), JNull),
          Request("save", WrongPassword, Some(Foobar), ValArray)}

\* the requests of the concurrent specification: one archive, two values
ConcRequests ==
    {Request("list", Secret, None, JNull),
     Request("load", Secret, Some(Foobar), JNull),
     Request("delete", Secret, Some(FooBangBar), JNull),
     Request("save", Secret, Some(Foobar), ValArray),
     Request("save", Secret, Some(FooBangBar), ValNull),
     Request("load", WrongPassword, Some(Foobar), JNull)}

\* ------------------------------------------------------------------------
\* State
\* ------------------------------------------------------------------------

Procs == {1, 2}

VARIABLES
    sync_password,  \* the configured secret (module level, line 112)
    dir,            \* the directory tree: resolved path -> inode number
    inode,          \* inode number -> the characters of the file
    pc,             \* per request task: where its handler stands
    req,            \* per request task: the request it serves
    loc,            \* per request task: safe_filename, file_path, f
    resp,           \* per request task: the response sent
    nreq,           \* requests received so far
    lastSaved,      \* history: safeName -> <<data>> of the last save that
                    \* returned 200, or <<>> once a delete returned 200
    saveFailed      \* history: a save failed after opening its file

vars == <<sync_password, dir, inode, pc, req, loc, resp, nreq, lastSaved, saveFailed>>

\* a file outside the storage directory, and the directories that exist
OutsideFile == <<<<"e", "t", "c">>, <<"p", "a", "s", "s", "w", "d">> \o JsonSuffix>>
OutsideContent == <<"{", "}">>
Dirs == {<<>>, <<<<"a", "p", "p">>>>, DataDirComps, <<<<"e", "t", "c">>>>}

Init ==
    /\ \E upper \in {None, Some(<<>>), Some(Secret)}, lower \in {None, Some(<<>>)} :
          sync_password = getenv_or(upper, lower)
    /\ dir = (OutsideFile :> 1)
    /\ inode = (1 :> OutsideContent)
    /\ pc = [p \in Procs |-> "idle"]
    /\ req = [p \in Procs |-> NoRequest]
    /\ loc = [p \in Procs |-> NoLocals]
    /\ resp = [p \in Procs |-> NoResponse]
    /\ nreq = 0
    /\ lastSaved = <<>>
    /\ saveFailed = FALSE

\* ------------------------------------------------------------------------
\* The filesystem
\* ------------------------------------------------------------------------

Restrict(f, S) == [x \in S |-> f[x]]

\* os.path.exists(path)
PathExists(path) == Resolve(path) \in DOMAIN dir

ParentExists(rp) == Len(rp) > 0 /\ SubSeq(rp, 1, Len(rp) - 1) \in Dirs

\* the inodes still reachable: linked in the tree or held open
Reachable(d, fds) == {d[rp] : rp \in DOMAIN d} \cup (fds \ {0})

OpenFds(l) == {l[p].fd : p \in Procs}

FreshInode == CHOOSE n \in 1..(Cardinality(DOMAIN inode) + 1) : n \notin DOMAIN inode

\* an open that creates a missing file but does not truncate an existing one
OpenKeeping(rp) ==
    IF rp \in DOMAIN dir
    THEN [d |-> dir, i |-> inode, fd |-> dir[rp]]
    ELSE [d |-> dir @@ (rp :> FreshInode),
          i |-> inode @@ (FreshInode :> <<>>),
          fd |-> FreshInode]

\* open(path, "w"): O_CREAT | O_TRUNC; the new tree, inodes and descriptor
OpenTruncating(rp) ==
    IF rp \in DOMAIN dir
    THEN [d |-> dir, i |-> [inode EXCEPT ![dir[rp]] = <<>>], fd |-> dir[rp]]
    ELSE [d |-> dir @@ (rp :> FreshInode),
          i |-> inode @@ (FreshInode :> <<>>),
          fd |-> FreshInode]

\* the buffered text reaches the file at the descriptor's offset, 0
WriteAtStart(old, buf) == buf \o SubSeq(old, Len(buf) + 1, Len(old))

\* the inode table without the inodes nothing refers to any more
Collect(i, d, fds) == Restrict(i, Reachable(d, fds) \cap DOMAIN i)

EndsWith(f, suffix) ==
    Len(f) >= Len(suffix) /\ SubSeq(f, Len(f) - Len(suffix) + 1, Len(f)) = suffix

\* str.replace(old, ""): every occurrence is removed (old = ".json" cannot
\* overlap itself, so the occurrences are the places where it starts)
RemoveAll(f, old) ==
    LET hits == {i \in 1..Len(f) : StartsWith(f, i, old)}
        kept == {j \in 1..Len(f) : ~\E i \in hits : i <= j /\ j < i + Len(old)}
    IN  [k \in 1..Cardinality(kept) |-> f[Nth(kept, k)]]

\* os.listdir(data_dir)
listdir_data_dir == {rp[Len(rp)] : rp \in {q \in DOMAIN dir : InDataDir(q)}}

\* a listing that keeps the file names as they are
archives_unstripped(files) == {f \in files : EndsWith(f, JsonSuffix)}

\* [f.replace(".json", "") for f in files if f.endswith(".json")]
archives_of(files) ==
    {RemoveAll(f, JsonSuffix) : f \in {g \in files : EndsWith(g, JsonSuffix)}}

\* ------------------------------------------------------------------------
\* Operations
\* ------------------------------------------------------------------------

Idle(p) == pc[p] \in {"idle", "done"}

Finish(p, response) ==
    /\ pc' = [pc EXCEPT ![p] = "done"]
    /\ resp' = [resp EXCEPT ![p] = response]

\* the router hands request r to task p
Receive(p, r) ==
    /\ Idle(p)
    /\ nreq < MaxReqs
    /\ nreq' = nreq + 1
    /\ pc' = [pc EXCEPT ![p] = "auth"]
    /\ req' = [req EXCEPT ![p] = r]
    /\ loc' = [loc EXCEPT ![p] = NoLocals]
    /\ resp' = [resp EXCEPT ![p] = NoResponse]
    /\ UNCHANGED <<sync_password, dir, inode, lastSaved, saveFailed>>

\* one request at a time
ReceiveSeq(r) ==
    /\ \A q \in Procs : Idle(q)
    /\ Receive(1, r)

\* requests overlap
ReceiveConc(p, r) == Receive(p, r)

\* a check that lets every request in while no secret is configured
password_rejected_when_set(configured, password) ==
    /\ configured.some /\ configured.v # <<>>
    /\ password # configured.v

\* not sync_password or password != sync_password
password_rejected(configured, password) ==
    \/ ~configured.some
    \/ configured.v = <<>>
    \/ password # configured.v

\* verify_password, the dependency of every route of the router
verify_password(p) ==
    /\ pc[p] = "auth"
    /\ IF password_rejected(sync_password, req[p].password)
       THEN Finish(p, http_exception_handler(403, "invalid_password", "", <<>>))
       ELSE /\ pc' = [pc EXCEPT ![p] = req[p].op]
            /\ UNCHANGED resp
    /\ UNCHANGED <<sync_password, dir, inode, req, loc, nreq, lastSaved, saveFailed>>

\* list_archives
list_archives(p) ==
    /\ pc[p] = "list"
    /\ Finish(p, Response(200, "ok", "", <<>>, <<>>, archives_of(listdir_data_dir)))
    /\ UNCHANGED <<sync_password, dir, inode, req, loc, nreq, lastSaved, saveFailed>>

\* load_archive up to the existence check
load_archive_exists(p) ==
    /\ pc[p] = "load"
    /\ LET safe_filename == sanitize_filename(req[p].archiveName.v)
           file_path == file_path_of(safe_filename)
       IN  IF ~PathExists(file_path)
           THEN /\ Finish(p, http_exception_handler(404, "not_found", "", <<>>))
                /\ UNCHANGED loc
           ELSE /\ pc' = [pc EXCEPT ![p] = "load_open"]
                /\ loc' = [loc EXCEPT ![p].safe_filename = safe_filename,
                                      ![p].file_path = file_path]
                /\ UNCHANGED resp
    /\ UNCHANGED <<sync_password, dir, inode, req, nreq, lastSaved, saveFailed>>

\* load_archive: aiofiles.open(file_path, "r")
load_archive_open(p) ==
    /\ pc[p] = "load_open"
    /\ LET rp == Resolve(loc[p].file_path)
       IN  IF rp \notin DOMAIN dir
           THEN /\ Finish(p, http_exception_handler(500, "cannot_load",
                                 "FileNotFoundError", loc[p].file_path))
                /\ UNCHANGED loc
           ELSE /\ pc' = [pc EXCEPT ![p] = "load_read"]
                /\ loc' = [loc EXCEPT ![p].fd = dir[rp]]
                /\ UNCHANGED resp
    /\ UNCHANGED <<sync_password, dir, inode, req, nreq, lastSaved, saveFailed>>

\* load_archive: f.read(), json.loads, JSONResponse, and the close of f
load_archive_read(p) ==
    /\ pc[p] = "load_read"
    /\ LET parsed == json_loads(inode[loc[p].fd])
       IN  Finish(p,
             IF ~parsed.ok
             THEN http_exception_handler(500, "cannot_load", "JSONDecodeError", <<>>)
             ELSE IF HasNaN(parsed.v)
             THEN http_exception_handler(500, "cannot_load", "ValueError", <<>>)
             ELSE Response(200, "ok", "", <<>>, <<parsed.v>>, {}))
    /\ loc' = [loc EXCEPT ![p].fd = 0]
    /\ inode' = Collect(inode, dir, OpenFds(loc'))
    /\ UNCHANGED <<sync_password, dir, req, nreq, lastSaved, saveFailed>>

\* save_archive up to the computation of file_path
save_archive_name(p) ==
    /\ pc[p] = "save"
    /\ LET archive_name == archive_name_of(req[p])
       IN  IF archive_name = <<>> \/ ~Truthy(archive_name[1])
           THEN /\ Finish(p, http_exception_handler(400, "name_required", "", <<>>))
                /\ UNCHANGED loc
           ELSE IF archive_name[1].t # "str"
           THEN \* re.sub raises TypeError outside any try
                /\ Finish(p, global_exception_handler)
                /\ UNCHANGED loc
           ELSE LET safe_filename == sanitize_filename(archive_name[1].s)
                IN  /\ pc' = [pc EXCEPT ![p] = "save_open"]
                    /\ loc' = [loc EXCEPT ![p].safe_filename = safe_filename,
                                          ![p].file_path = file_path_of(safe_filename)]
                    /\ UNCHANGED resp
    /\ UNCHANGED <<sync_password, dir, inode, req, nreq, lastSaved, saveFailed>>

\* save_archive: aiofiles.open(file_path, "w")
save_archive_open(p) ==
    /\ pc[p] = "save_open"
    /\ LET rp == Resolve(loc[p].file_path)
           opened == OpenTruncating(rp)
       IN  IF ~ParentExists(rp)
           THEN /\ Finish(p, http_exception_handler(500, "cannot_save",
                                 "FileNotFoundError", loc[p].file_path))
                /\ UNCHANGED <<dir, inode, loc>>
           ELSE /\ pc' = [pc EXCEPT ![p] = "save_write"]
                /\ dir' = opened.d
                /\ inode' = opened.i
                /\ loc' = [loc EXCEPT ![p].fd = opened.fd]
                /\ UNCHANGED resp
    /\ UNCHANGED <<sync_password, req, nreq, lastSaved, saveFailed>>

\* save_archive: f.write(json.dumps(...)); the text is encoded into the
\* buffer of f, and an encoding error closes f with nothing written
save_archive_write(p) ==
    /\ pc[p] = "save_write"
    /\ LET text == json_dumps(req[p].data)
       IN  IF Unencodable(text)
           THEN /\ Finish(p, http_exception_handler(500, "cannot_save",
                                 "UnicodeEncodeError", <<>>))
                /\ loc' = [loc EXCEPT ![p].fd = 0]
                /\ inode' = Collect(inode, dir, OpenFds(loc'))
                /\ saveFailed' = TRUE
           ELSE /\ pc' = [pc EXCEPT ![p] = "save_close"]
                /\ loc' = [loc EXCEPT ![p].buf = text]
                /\ UNCHANGED <<inode, resp, saveFailed>>
    /\ UNCHANGED <<sync_password, dir, req, nreq, lastSaved>>

\* save_archive: leaving the with block flushes the buffer and closes f
save_archive_close(p) ==
    /\ pc[p] = "save_close"
    /\ Finish(p, Response(200, "saved", "", <<>>, <<>>, {}))
    /\ loc' = [loc EXCEPT ![p].fd = 0, ![p].buf = <<>>]
    /\ inode' = Collect([inode EXCEPT ![loc[p].fd] = WriteAtStart(@, loc[p].buf)],
                        dir, OpenFds(loc'))
    /\ lastSaved' = (loc[p].safe_filename :> <<req[p].data>>) @@ lastSaved
    /\ UNCHANGED <<sync_password, dir, req, nreq, saveFailed>>

\* delete_archive up to the existence check
delete_archive_exists(p) ==
    /\ pc[p] = "delete"
    /\ LET safe_filename == sanitize_filename(req[p].archiveName.v)
           file_path == file_path_of(safe_filename)
       IN  IF ~PathExists(file_path)
           THEN /\ Finish(p, http_exception_handler(404, "not_found", "", <<>>))
                /\ UNCHANGED loc
           ELSE /\ pc' = [pc EXCEPT ![p] = "delete_remove"]
                /\ loc' = [loc EXCEPT ![p].safe_filename = safe_filename,
                                      ![p].file_path = file_path]
                /\ UNCHANGED resp
    /\ UNCHANGED <<sync_password, dir, inode, req, nreq, lastSaved, saveFailed>>

\* delete_archive: aiofiles.os.remove(file_path)
delete_archive_remove(p) ==
    /\ pc[p] = "delete_remove"
    /\ LET rp == Resolve(loc[p].file_path)
       IN  IF rp \notin DOMAIN dir
           THEN /\ Finish(p, http_exception_handler(500, "cannot_delete",
                                 "FileNotFoundError", loc[p].file_path))
                /\ UNCHANGED <<dir, inode, lastSaved>>
           ELSE /\ Finish(p, Response(200, "deleted", "", <<>>, <<>>, {}))
                /\ dir' = Restrict(dir, DOMAIN dir \ {rp})
                /\ inode' = Collect(inode, dir', OpenFds(loc))
                /\ lastSaved' = (loc[p].safe_filename :> <<>>) @@ lastSaved
    /\ UNCHANGED <<sync_password, req, loc, nreq, saveFailed>>

\* one step of the task p
Handle(p) ==
    \/ verify_password(p)
    \/ list_archives(p)
    \/ load_archive_exists(p)
    \/ load_archive_open(p)
    \/ load_archive_read(p)
    \/ save_archive_name(p)
    \/ save_archive_open(p)
    \/ save_archive_write(p)
    \/ save_archive_close(p)
    \/ delete_archive_exists(p)
    \/ delete_archive_remove(p)

\* requests served one after the other
Next ==
    \/ \E r \in SeqRequests : ReceiveSeq(r)
    \/ \E p \in Procs : Handle(p)

Spec == Init /\ [][Next]_vars

\* requests served as the event loop interleaves them at their awaits
NextConc ==
    \/ \E p \in Procs : \E r \in ConcRequests : ReceiveConc(p, r)
    \/ \E p \in Procs : Handle(p)

SpecConc == Init /\ [][NextConc]_vars

\* ------------------------------------------------------------------------
\* Properties
\* ------------------------------------------------------------------------

\* where a handler holds a file_path it is about to use, or is using
FilePcs == {"load_open", "load_read", "save_open", "save_write", "save_close",
            "delete_remove"}

WritePcs == {"save_open", "save_write", "save_close"}

SafeChar(c) == c \in AsciiLetters \cup UnicodeLetters \cup Digits \cup {"_", "-"}

DataFile(safeName) == Append(DataDirComps, safeName \o JsonSuffix)

\* the safeNames saved and not deleted since
Live == {n \in DOMAIN lastSaved : lastSaved[n] # <<>>}

\* C1: every path a handler addresses is data_dir/<safeName>.json with
\* safeName made of letters, digits, "_" and "-" and at most 100 characters
\* long; the tree holds no file outside the flat storage directory but the
\* one that was there, and that one still has its content.
C1_PathsStayInDataDir ==
    /\ \A p \in Procs :
          pc[p] \in FilePcs =>
             LET safe == loc[p].safe_filename
             IN  /\ \A i \in 1..Len(safe) : SafeChar(safe[i])
                 /\ Len(safe) <= 100
                 /\ loc[p].file_path = data_dir \o <<"/">> \o safe \o JsonSuffix
                 /\ Resolve(loc[p].file_path) = DataFile(safe)
    /\ \A rp \in DOMAIN dir : rp = OutsideFile \/ InDataDir(rp)
    /\ OutsideFile \in DOMAIN dir
    /\ inode[dir[OutsideFile]] = OutsideContent

\* C1 witness: a save under the over-long name is about to write its file,
\* truncated to 100 characters, while the traversal name's archive is stored
\* as etcpasswd.json.
C1_Witness ==
    /\ pc[1] = "save_close"
    /\ req[1].archiveName = Some(LongName)
    /\ Len(loc[1].safe_filename) = 100
    /\ DataFile(<<"e", "t", "c", "p", "a", "s", "s", "w", "d">>) \in DOMAIN dir

Unauthorized(r) ==
    \/ ~sync_password.some
    \/ sync_password.v = <<>>
    \/ r.password # sync_password.v

\* C2: the step that answers a request whose password differs from the
\* secret, or any request while no secret is configured, answers 403 with no
\* archive name or content, never enters a handler, and leaves the files as
\* they were.
C2_RejectedBeforeHandler ==
    [][\A p \in Procs :
          (pc[p] = "auth" /\ pc'[p] # "auth" /\ Unauthorized(req[p])) =>
             /\ pc'[p] = "done"
             /\ resp'[p].status = 403
             /\ resp'[p].data = <<>>
             /\ resp'[p].archives = {}
             /\ dir' = dir
             /\ inode' = inode]_vars

\* C2 witness: with an archive stored, a save with the wrong password has
\* been answered 403.
C2_Witness ==
    /\ pc[1] = "done"
    /\ req[1].op = "save"
    /\ req[1].password = WrongPassword
    /\ resp[1].status = 403
    /\ Live # {}

\* C3: served one after the other, and no save having failed, a load that
\* returns 200 returns the data of the last successful save under the same
\* safeName, no delete of it in between; and such a load does return 200
\* unless the data holds a NaN (which the response cannot carry).
C3_LoadReturnsLastSave ==
    \A p \in Procs :
       (pc[p] = "done" /\ req[p].op = "load" /\ resp[p].status # 403 /\ ~saveFailed) =>
          LET safe == sanitize_filename(req[p].archiveName.v)
          IN  /\ resp[p].status = 200 =>
                    safe \in Live /\ resp[p].data = lastSaved[safe]
              /\ (safe \in Live /\ ~HasNaN(lastSaved[safe][1])) =>
                    resp[p].status = 200

\* C3 witness: a load of "foobar" returned the null that was saved under
\* "foo!bar".
C3_Witness ==
    /\ pc[1] = "done"
    /\ req[1].op = "load"
    /\ req[1].archiveName = Some(Foobar)
    /\ resp[1].status = 200
    /\ resp[1].data = <<ValNull>>
    /\ lastSaved[Foobar] = <<ValNull>>

\* C4: served one after the other from an empty storage directory, and no
\* save having failed, a list returns exactly the safeNames saved and not
\* deleted since, each the name of a stored file less its ".json".
C4_ListIsLiveSet ==
    \A p \in Procs :
       (pc[p] = "done" /\ req[p].op = "list" /\ resp[p].status # 403 /\ ~saveFailed) =>
          /\ resp[p].status = 200
          /\ resp[p].archives = Live
          /\ \A n \in resp[p].archives : DataFile(n) \in DOMAIN dir

\* C4 witness: a list after two saves and a delete returned the one archive
\* that is left.
C4_Witness ==
    /\ pc[1] = "done"
    /\ req[1].op = "list"
    /\ Cardinality(resp[1].archives) = 1
    /\ \E n \in DOMAIN lastSaved : lastSaved[n] = <<>>

\* a save request with no top-level archiveName and no data._internalName
NoName(r) ==
    /\ ~r.archiveName.some
    /\ r.data.t # "obj" \/ \A i \in 1..Len(r.data.kids) : r.data.kids[i].s # InternalNameKey

\* C5: the handler step of a save without any name ends the request with 400
\* and leaves every file as it was.
C5_MissingNameIs400 ==
    [][\A p \in Procs :
          (pc[p] = "save" /\ pc'[p] # "save" /\ NoName(req[p])) =>
             /\ pc'[p] = "done"
             /\ resp'[p].status = 400
             /\ dir' = dir
             /\ inode' = inode]_vars

\* C5 witness: with an archive stored, a nameless save of an array has been
\* answered 400.
C5_Witness ==
    /\ pc[1] = "done"
    /\ req[1].op = "save"
    /\ NoName(req[1])
    /\ req[1].data = ValArray
    /\ resp[1].status = 400
    /\ Live # {}

\* the nested name of a payload, when it is a string
NestedName(r) ==
    IF r.data.t = "obj" /\ DictGet(r.data, InternalNameKey) # <<>>
       /\ DictGet(r.data, InternalNameKey)[1].t = "str"
    THEN <<DictGet(r.data, InternalNameKey)[1].s>>
    ELSE <<>>

\* C6 as claimed: whenever the top-level archiveName is present, the file a
\* save writes is named by sanitizing it.
C6_TopLevelWheneverPresent ==
    \A p \in Procs :
       (pc[p] \in WritePcs /\ req[p].archiveName.some) =>
          loc[p].safe_filename = sanitize_filename(req[p].archiveName.v)

\* C6 amended: a top-level archiveName that is a non-empty string names the
\* file, whatever data._internalName is; an absent or empty one leaves the
\* file to the nested name.
C6_TopLevelWhenNonEmpty ==
    \A p \in Procs :
       pc[p] \in WritePcs =>
          IF req[p].archiveName.some /\ req[p].archiveName.v # <<>>
          THEN loc[p].safe_filename = sanitize_filename(req[p].archiveName.v)
          ELSE /\ NestedName(req[p]) # <<>>
               /\ loc[p].safe_filename = sanitize_filename(NestedName(req[p])[1])

\* C6 witness: a save with archiveName "foobar" and a nested name that
\* sanitizes to "etcpasswd" is about to write foobar.json.
C6_Witness ==
    /\ pc[1] = "save_close"
    /\ req[1].archiveName = Some(Foobar)
    /\ req[1].data = ValNamed
    /\ loc[1].safe_filename = Foobar

\* C7: a load or delete that finds its file missing answers 404, never 500.
C7_MissingFileIs404 ==
    \A p \in Procs :
       (pc[p] = "done" /\ req[p].op \in {"load", "delete"}
          /\ resp[p].exc = "FileNotFoundError") =>
          resp[p].status = 404

\* C8: the storage directory holds no file named ".json" and no list
\* returns the empty name.
C8_NoEmptySafeName ==
    /\ DataFile(<<>>) \notin DOMAIN dir
    /\ \A p \in Procs : <<>> \notin resp[p].archives

\* C9: once two overlapping saves to one safeName have both returned 200 (and
\* nothing else was requested), the file holds the serialization of one of
\* the two values, which is what a load would then parse.
C9_LastWriteWins ==
    (/\ nreq = 2
     /\ \A p \in Procs : pc[p] = "done" /\ req[p].op = "save" /\ resp[p].status = 200
     /\ loc[1].safe_filename = loc[2].safe_filename) =>
       /\ DataFile(loc[1].safe_filename) \in DOMAIN dir
       /\ \E p \in Procs :
             /\ inode[dir[DataFile(loc[1].safe_filename)]] = json_dumps(req[p].data)
             /\ json_loads(inode[dir[DataFile(loc[1].safe_filename)]]) =
                   [ok |-> TRUE, v |-> req[p].data]

\* C10: a response with status 500 carries the generic message, with no
\* exception text and no file path.
C10_GenericInternalError ==
    \A p \in Procs :
       (pc[p] = "done" /\ resp[p].status = 500) =>
          /\ resp[p].msg = "internal_error"
          /\ resp[p].exc = ""
          /\ resp[p].path = <<>>

====
